---- MODULE Spec2Model ----
(***************************************************************************)
(* A model of the SOGI-PLL of src/src/lib.rs: the third order integrator,  *)
(* the SOGI orthogonal signal generator, the phase error extraction, the   *)
(* PI controller it drives (the pid crate's Pid<f32>, configured and       *)
(* stepped in lib.rs) and the per-sample update of SogiPll.                *)
(*                                                                         *)
(* Numbers.  The code computes in f32.  The model computes the same        *)
(* expressions in exact integer arithmetic, on configurations and samples  *)
(* for which every intermediate value is an integer:                       *)
(*   - sample_time is a multiple of 12, so sample_time / 12.0 is exact;    *)
(*   - angles are counted in units of pi/8 (PI == 8, a full turn is 16);   *)
(*     omega * sample_time is then a multiple of 4, so the phase is always *)
(*     a whole number of quarter turns, where sin and cos are exactly      *)
(*     -1, 0 or 1;                                                         *)
(*   - v_rms = SQRT_1_2 * sqrt(a^2 + b^2) is irrational in general; the    *)
(*     model carries the exact integer 2 * v_rms^2 = a^2 + b^2 instead.    *)
(* Rounding, overflow to infinity and NaN of f32 are outside the model.    *)
(***************************************************************************)
EXTENDS Integers, Sequences, FiniteSets, TLC

VARIABLES
    pll,        \* the SogiPll under test (struct SogiPll)
    result,     \* the PllResult returned by the last SogiPll::update
    steps,      \* number of SogiPll::update calls made so far
    allZero,    \* history: every sample passed to update so far was zero
    sg,         \* a stand-alone Sogi<f32>, driven with arbitrary omega
    sg_out,     \* the pair returned by the last Sogi::update on sg
    sg_in,      \* the arguments (v, omega) of the last Sogi::update on sg
    sg_steps,   \* number of Sogi::update calls made on sg
    integ,      \* a stand-alone ThirdOrderIntegrator
    xs,         \* history: the inputs passed to integ.update, oldest first
    integ_val   \* the number returned by the last integ.value()

vars == <<pll, result, steps, allZero, sg, sg_out, sg_in, sg_steps, integ, xs, integ_val>>

pllVars == <<pll, result, steps, allZero>>
sgVars == <<sg, sg_out, sg_in, sg_steps>>
integVars == <<integ, xs, integ_val>>

----------------------------------------------------------------------------
(* Bounds of the model.                                                    *)

MaxSteps == 5       \* SogiPll::update calls per behaviour
MaxAmplitude == 10000 \* update is called while |v_alpha|, |v_beta| are within it
MaxSogiSteps == 3   \* Sogi::update calls per behaviour of the stand-alone SOGI
MaxLen == 4         \* ThirdOrderIntegrator::update calls per behaviour

(* Inputs. *)
Samples == {-2, 0, 1}            \* measured voltages passed to SogiPll::update
SogiSamples == {-1, 0, 2}        \* v passed to Sogi::update
SogiOmegas == {-1, 1, 2}         \* omega passed to Sogi::update
IntegInputs == {-2, -1, 0, 1, 3} \* x passed to ThirdOrderIntegrator::update

(* Configurations: struct PllConfig.  The frequency limit is below, equal  *)
(* to and above omega_zero, once negative, and once wide enough for the    *)
(* controller to work unsaturated.                                         *)
Configs ==
    [ sample_time : {12, 24},
      sogi_k : {1, 2},
      pi_proportional_gain : {1, 2},
      pi_integral_gain : {0, 1},
      omega_zero : {1, 2},
      frequency_limit : {-1, 1, 2, 60} ]

----------------------------------------------------------------------------
(* f32 helpers.                                                            *)

\* core::f32::consts::PI, in angle units of pi/8
PI == 8

Abs(x) == IF x < 0 THEN -x ELSE x

\* f32 `%`: the remainder of truncated division, with the sign of the dividend
Rem(a, b) == IF a >= 0 THEN a % b ELSE -((-a) % b)

\* f32::sin and f32::cos on whole quarter turns (theta a multiple of PI/2)
sin(theta) ==
    LET t == theta % (2 * PI)
    IN  CASE t = 0 -> 0
          [] t = 4 -> 1
          [] t = 8 -> 0
          [] t = 12 -> -1

cos(theta) ==
    LET t == theta % (2 * PI)
    IN  CASE t = 0 -> 1
          [] t = 4 -> 0
          [] t = 8 -> -1
          [] t = 12 -> 0

----------------------------------------------------------------------------
(* struct ThirdOrderIntegrator                                             *)

ThirdOrderIntegrator_new(sample_time) ==
    [ sample_time |-> sample_time, samples |-> <<0, 0, 0>> ]

\* mutant: the shift is done newest-first, so samples[2] receives samples[0]
ThirdOrderIntegrator_update_ShiftNewestFirst(self, x) ==
    [ self EXCEPT !.samples =
        << self.samples[1] + x * (self.sample_time \div 12),
           self.samples[1],
           self.samples[1] >> ]

\* samples are indexed from 1 here: samples[1] is the code's samples[0]
ThirdOrderIntegrator_update(self, x) ==
    LET third == self.samples[2]
        second == self.samples[1]
        first == self.samples[1] + x * (self.sample_time \div 12)
    IN  [ self EXCEPT !.samples = << first, second, third >> ]

ThirdOrderIntegrator_value(self) ==
    self.samples[1] * 23 - self.samples[2] * 16 + self.samples[3] * 5

----------------------------------------------------------------------------
(* struct Sogi<f32>                                                        *)

Sogi_new(k, sample_time) ==
    [ k |-> k,
      integrator_1 |-> ThirdOrderIntegrator_new(sample_time),
      integrator_2 |-> ThirdOrderIntegrator_new(sample_time) ]

\* mutant: integrator 2 is fed from integrator 1 after it has advanced
Sogi_update_Integrator2SeesAdvanced(self, v, omega) ==
    LET v_alpha == ThirdOrderIntegrator_value(self.integrator_1)
        v_beta == ThirdOrderIntegrator_value(self.integrator_2)
        integrator_1_in == ((v - v_alpha) * self.k - v_beta) * omega
        advanced_1 == ThirdOrderIntegrator_update(self.integrator_1, integrator_1_in)
        integrator_2_in == ThirdOrderIntegrator_value(advanced_1) * omega
    IN  [ self |-> [ self EXCEPT
                       !.integrator_1 = advanced_1,
                       !.integrator_2 =
                           ThirdOrderIntegrator_update(@, integrator_2_in) ],
          ret |-> << v_alpha, v_beta >> ]

\* mutant: the first integrator's input adds omega instead of scaling by it
Sogi_update_AddsOmega(self, v, omega) ==
    LET v_alpha == ThirdOrderIntegrator_value(self.integrator_1)
        v_beta == ThirdOrderIntegrator_value(self.integrator_2)
        integrator_1_in == ((v - v_alpha) * self.k - v_beta) + omega
        integrator_2_in == v_alpha * omega
    IN  [ self |-> [ self EXCEPT
                       !.integrator_1 =
                           ThirdOrderIntegrator_update(@, integrator_1_in),
                       !.integrator_2 =
                           ThirdOrderIntegrator_update(@, integrator_2_in) ],
          ret |-> << v_alpha, v_beta >> ]

\* Sogi::update: the new Sogi and the returned (v_alpha, v_beta)
Sogi_update(self, v, omega) ==
    LET v_alpha == ThirdOrderIntegrator_value(self.integrator_1)
        v_beta == ThirdOrderIntegrator_value(self.integrator_2)
        integrator_1_in == ((v - v_alpha) * self.k - v_beta) * omega
        integrator_2_in == v_alpha * omega
    IN  [ self |-> [ self EXCEPT
                       !.integrator_1 =
                           ThirdOrderIntegrator_update(@, integrator_1_in),
                       !.integrator_2 =
                           ThirdOrderIntegrator_update(@, integrator_2_in) ],
          ret |-> << v_alpha, v_beta >> ]

alpha_beta_to_q(alpha, beta, theta) ==
    (-alpha) * sin(theta) + beta * cos(theta)

----------------------------------------------------------------------------
(* pid::Pid<f32>, as SogiPll configures and steps it.  The derivative gain *)
(* and limit stay at their zero defaults, so the derivative term is 0.     *)

\* pid's apply_limit: clamp(value, -limit.abs(), limit.abs())
apply_limit(limit, value) ==
    IF value < -Abs(limit) THEN -Abs(limit)
    ELSE IF value > Abs(limit) THEN Abs(limit)
    ELSE value

\* Pid::new(setpoint, output_limit)
Pid_new(setpoint, output_limit) ==
    [ setpoint |-> setpoint, output_limit |-> output_limit,
      kp |-> 0, ki |-> 0, p_limit |-> 0, i_limit |-> 0, integral_term |-> 0 ]

\* Pid::p(gain, limit)
Pid_p(self, gain, limit) == [ self EXCEPT !.kp = gain, !.p_limit = limit ]

\* Pid::i(gain, limit)
Pid_i(self, gain, limit) == [ self EXCEPT !.ki = gain, !.i_limit = limit ]

\* Pid::next_control_output(measurement): the new Pid and ControlOutput.output
Pid_next_control_output(self, measurement) ==
    LET error == self.setpoint - measurement
        p == apply_limit(self.p_limit, error * self.kp)
        integral_term ==
            apply_limit(self.i_limit, self.integral_term + error * self.ki)
        output == apply_limit(self.output_limit, p + integral_term)
    IN  [ self |-> [ self EXCEPT !.integral_term = integral_term ],
          output |-> output ]

----------------------------------------------------------------------------
(* struct SogiPll                                                          *)

\* mutant: the controller's output limit is twice the configured one
SogiPll_new_WideOutputLimit(config) ==
    [ config |-> config,
      sogi |-> Sogi_new(config.sogi_k, config.sample_time),
      pid |-> Pid_i(Pid_p(Pid_new(0, 2 * config.frequency_limit),
                          config.pi_proportional_gain, config.frequency_limit),
                    config.pi_integral_gain, config.frequency_limit),
      pi_value |-> 0,
      z1 |-> 0 ]

SogiPll_new(config) ==
    [ config |-> config,
      sogi |-> Sogi_new(config.sogi_k, config.sample_time),
      pid |-> Pid_i(Pid_p(Pid_new(0, config.frequency_limit),
                          config.pi_proportional_gain, config.frequency_limit),
                    config.pi_integral_gain, config.frequency_limit),
      pi_value |-> 0,
      z1 |-> 0 ]

\* 2 * v_rms^2, where v_rms = SQRT_1_2 * (v_alpha^2 + v_beta^2).sqrt()
v_rms_2sq(v_alpha, v_beta) == v_alpha * v_alpha + v_beta * v_beta

\* mutant: the phase is accumulated without the wrap
SogiPll_update_NoWrap(self, v) ==
    LET omega == self.pi_value + self.config.omega_zero
        s == Sogi_update(self.sogi, v, omega)
        v_alpha == s.ret[1]
        v_beta == s.ret[2]
        q == alpha_beta_to_q(v_alpha, v_beta, self.z1)
        z1 == omega * self.config.sample_time + self.z1
        pid_out == Pid_next_control_output(self.pid, -q)
    IN  [ self |-> [ self EXCEPT !.sogi = s.self, !.z1 = z1,
                                 !.pid = pid_out.self,
                                 !.pi_value = pid_out.output ],
          ret |-> [ v_beta |-> v_beta, theta |-> z1,
                    v_rms_2sq |-> v_rms_2sq(v_alpha, v_beta) ] ]

\* mutant: the phase error is taken at the phase already advanced
SogiPll_update_QAtNewPhase(self, v) ==
    LET omega == self.pi_value + self.config.omega_zero
        s == Sogi_update(self.sogi, v, omega)
        v_alpha == s.ret[1]
        v_beta == s.ret[2]
        z1 == Rem(omega * self.config.sample_time + self.z1, 2 * PI)
        q == alpha_beta_to_q(v_alpha, v_beta, z1)
        pid_out == Pid_next_control_output(self.pid, -q)
    IN  [ self |-> [ self EXCEPT !.sogi = s.self, !.z1 = z1,
                                 !.pid = pid_out.self,
                                 !.pi_value = pid_out.output ],
          ret |-> [ v_beta |-> v_beta, theta |-> z1,
                    v_rms_2sq |-> v_rms_2sq(v_alpha, v_beta) ] ]

\* mutant: q is handed to the controller without the negation
SogiPll_update_NoNegation(self, v) ==
    LET omega == self.pi_value + self.config.omega_zero
        s == Sogi_update(self.sogi, v, omega)
        v_alpha == s.ret[1]
        v_beta == s.ret[2]
        q == alpha_beta_to_q(v_alpha, v_beta, self.z1)
        z1 == Rem(omega * self.config.sample_time + self.z1, 2 * PI)
        pid_out == Pid_next_control_output(self.pid, q)
    IN  [ self |-> [ self EXCEPT !.sogi = s.self, !.z1 = z1,
                                 !.pid = pid_out.self,
                                 !.pi_value = pid_out.output ],
          ret |-> [ v_beta |-> v_beta, theta |-> z1,
                    v_rms_2sq |-> v_rms_2sq(v_alpha, v_beta) ] ]

\* SogiPll::update: the new SogiPll and the returned PllResult
SogiPll_update(self, v) ==
    LET omega == self.pi_value + self.config.omega_zero
        s == Sogi_update(self.sogi, v, omega)
        v_alpha == s.ret[1]
        v_beta == s.ret[2]
        q == alpha_beta_to_q(v_alpha, v_beta, self.z1)
        z1 == Rem(omega * self.config.sample_time + self.z1, 2 * PI)
        pid_out == Pid_next_control_output(self.pid, -q)
    IN  [ self |-> [ self EXCEPT !.sogi = s.self, !.z1 = z1,
                                 !.pid = pid_out.self,
                                 !.pi_value = pid_out.output ],
          ret |-> [ v_beta |-> v_beta, theta |-> z1,
                    v_rms_2sq |-> v_rms_2sq(v_alpha, v_beta) ] ]

----------------------------------------------------------------------------
(* The state machines.                                                     *)

NoResult == [ v_beta |-> 0, theta |-> 0, v_rms_2sq |-> 0 ]

\* The parts of the state a specification does not drive
PllIdle ==
    /\ pll = SogiPll_new(CHOOSE c \in Configs : TRUE)
    /\ result = NoResult /\ steps = 0 /\ allZero = TRUE
SogiIdle ==
    /\ sg = Sogi_new(1, 12) /\ sg_out = << 0, 0 >> /\ sg_in = << 0, 0 >>
    /\ sg_steps = 0
IntegIdle ==
    /\ integ = ThirdOrderIntegrator_new(12) /\ xs = << >> /\ integ_val = 0

(* Spec: one SogiPll, constructed from any configuration and then fed one  *)
(* sample per step.                                                        *)
Init ==
    /\ \E config \in Configs : pll = SogiPll_new(config)
    /\ result = NoResult /\ steps = 0 /\ allZero = TRUE
    /\ SogiIdle /\ IntegIdle

\* The quadrature pair the next Sogi::update will return
Alpha(s) == ThirdOrderIntegrator_value(s.integrator_1)
Beta(s) == ThirdOrderIntegrator_value(s.integrator_2)

Update(v) ==
    /\ steps < MaxSteps
    /\ Abs(Alpha(pll.sogi)) <= MaxAmplitude
    /\ Abs(Beta(pll.sogi)) <= MaxAmplitude
    /\ LET r == SogiPll_update(pll, v)
       IN  pll' = r.self /\ result' = r.ret
    /\ steps' = steps + 1
    /\ allZero' = (allZero /\ v = 0)
    /\ UNCHANGED << sgVars, integVars >>

Next == \E v \in Samples : Update(v)

Spec == Init /\ [][Next]_vars

(* SpecSogi: one Sogi, fed any sample and any omega per step.              *)
InitSogi ==
    /\ \E k \in {1, 2}, st \in {12, 24} : sg = Sogi_new(k, st)
    /\ sg_out = << 0, 0 >> /\ sg_in = << 0, 0 >> /\ sg_steps = 0
    /\ PllIdle /\ IntegIdle

SogiUpdate(v, omega) ==
    /\ sg_steps < MaxSogiSteps
    /\ LET r == Sogi_update(sg, v, omega)
       IN  sg' = r.self /\ sg_out' = r.ret
    /\ sg_in' = << v, omega >>
    /\ sg_steps' = sg_steps + 1
    /\ UNCHANGED << pllVars, integVars >>

NextSogi == \E v \in SogiSamples, omega \in SogiOmegas : SogiUpdate(v, omega)

SpecSogi == InitSogi /\ [][NextSogi]_vars

(* SpecInteg: one ThirdOrderIntegrator, updated and read in any order.     *)
InitInteg ==
    /\ \E st \in {12, 24, 36} : integ = ThirdOrderIntegrator_new(st)
    /\ xs = << >> /\ integ_val = 0
    /\ PllIdle /\ SogiIdle

IntegUpdate(x) ==
    /\ Len(xs) < MaxLen
    /\ integ' = ThirdOrderIntegrator_update(integ, x)
    /\ xs' = Append(xs, x)
    /\ UNCHANGED << integ_val, pllVars, sgVars >>

IntegValue ==
    /\ integ_val' = ThirdOrderIntegrator_value(integ)
    /\ UNCHANGED << integ, xs, pllVars, sgVars >>

NextInteg == (\E x \in IntegInputs : IntegUpdate(x)) \/ IntegValue

SpecInteg == InitInteg /\ [][NextInteg]_vars

----------------------------------------------------------------------------
(* Properties.                                                             *)

Cfg == pll.config
TwoPi == 2 * PI
Limit == Abs(Cfg.frequency_limit)
InPhaseRange(theta) == 0 <= theta /\ theta < TwoPi

\* clamp to [-l, l], l >= 0
Saturate(l, x) == IF x < -l THEN -l ELSE IF x > l THEN l ELSE x

\* C1: for every configuration and every sequence of samples, the stored
\* phase z1 and the returned theta lie in [0, 2*pi) after every call.
C1_PhaseAlwaysInRange ==
    InPhaseRange(pll.z1) /\ InPhaseRange(result.theta)

\* C2: the stored frequency correction pi_value stays within
\* [-|frequency_limit|, |frequency_limit|], so the omega of the next call
\* stays within omega_zero - |limit| .. omega_zero + |limit|.
C2_CorrectionWithinLimit ==
    /\ -Limit <= pll.pi_value /\ pll.pi_value <= Limit
    /\ Cfg.omega_zero - Limit <= pll.pi_value + Cfg.omega_zero
    /\ pll.pi_value + Cfg.omega_zero <= Cfg.omega_zero + Limit

\* C2 witness: after several calls the correction sits on the limit with the
\* integral term saturated too (proportional plus integral would exceed it).
C2_Witness ==
    /\ steps >= 3 /\ Limit > 0 /\ Cfg.pi_integral_gain > 0
    /\ pll.pi_value = Limit /\ pll.pid.integral_term = Limit

\* C3: while every sample so far was zero, all six taps are 0, the returned
\* v_beta and v_rms are 0, the correction is 0, and the phase has advanced by
\* omega_zero * sample_time (modulo 2*pi) at each call.
C3_ZeroInputStaysZero ==
    allZero =>
        /\ pll.sogi.integrator_1.samples = << 0, 0, 0 >>
        /\ pll.sogi.integrator_2.samples = << 0, 0, 0 >>
        /\ Alpha(pll.sogi) = 0 /\ Beta(pll.sogi) = 0
        /\ result.v_beta = 0 /\ result.v_rms_2sq = 0
        /\ pll.pi_value = 0 /\ pll.pid.integral_term = 0
        /\ pll.z1 = (steps * Cfg.omega_zero * Cfg.sample_time) % TwoPi
        /\ result.theta = pll.z1

\* C3 witness: four zero samples in, and the phase is off its start.
C3_Witness == allZero /\ steps >= 4 /\ pll.z1 # 0

\* C6: with sample_time > 0 and |frequency_limit| <= omega_zero the phase z1
\* is in [0, 2*pi) in every reachable state.
C6_PhaseInRangeWhenOmegaNonNegative ==
    (Cfg.sample_time > 0 /\ Limit <= Cfg.omega_zero) => InPhaseRange(pll.z1)

\* C6 witness: the limit equals omega_zero, the correction is at its most
\* negative (omega is 0 in the next call) and the phase is off zero.
C6_Witness ==
    /\ Limit = Cfg.omega_zero /\ steps >= 3
    /\ pll.pi_value = -Limit /\ pll.z1 > 0

\* S_j of C7: (sample_time / 12) * (x_1 + ... + x_j), and 0 for j <= 0
RECURSIVE SumTo(_, _)
SumTo(seq, j) == IF j <= 0 THEN 0 ELSE seq[j] + SumTo(seq, j - 1)
S(j) == (integ.sample_time \div 12) * SumTo(xs, j)

\* C7: after update(x_1), ..., update(x_n) the taps are (S_n, S_{n-1},
\* S_{n-2}); value() returns 23*tap1 - 16*tap2 + 5*tap3 and leaves the taps
\* as they are.
C7_SlidingHistory ==
    /\ [](integ.samples = << S(Len(xs)), S(Len(xs) - 1), S(Len(xs) - 2) >>)
    /\ [][ xs' = xs =>
             /\ integ' = integ
             /\ integ_val' = 23 * S(Len(xs)) - 16 * S(Len(xs) - 1)
                             + 5 * S(Len(xs) - 2) ]_vars

\* C7 witness: four updates in, three different non-zero taps, value() read.
C7_Witness ==
    /\ Len(xs) = 4
    /\ integ.samples[1] # 0 /\ integ.samples[2] # 0 /\ integ.samples[3] # 0
    /\ integ.samples[1] # integ.samples[2]
    /\ integ.samples[2] # integ.samples[3]
    /\ integ_val = ThirdOrderIntegrator_value(integ) /\ integ_val # 0

\* C8: Sogi::update returns the two integrators' values from before the
\* call, whatever v and omega are, and advances integrator 1 with
\* ((v - v_alpha)*k - v_beta)*omega and integrator 2 with v_alpha*omega, both
\* from those pre-advance values.
C8_OneStepDelay ==
    [][ LET v_alpha == 23 * sg.integrator_1.samples[1]
                       - 16 * sg.integrator_1.samples[2]
                       + 5 * sg.integrator_1.samples[3]
            v_beta == 23 * sg.integrator_2.samples[1]
                      - 16 * sg.integrator_2.samples[2]
                      + 5 * sg.integrator_2.samples[3]
            v == sg_in'[1]
            omega == sg_in'[2]
            gain == sg.integrator_1.sample_time \div 12
        IN  /\ sg_out' = << v_alpha, v_beta >>
            /\ sg'.integrator_1.samples =
                 << sg.integrator_1.samples[1]
                      + ((v - v_alpha) * sg.k - v_beta) * omega * gain,
                    sg.integrator_1.samples[1],
                    sg.integrator_1.samples[2] >>
            /\ sg'.integrator_2.samples =
                 << sg.integrator_2.samples[1] + v_alpha * omega * gain,
                    sg.integrator_2.samples[1],
                    sg.integrator_2.samples[2] >> ]_vars

\* C8 witness: three calls in, both returned components non-zero and the
\* first integrator already ahead of what was returned.
C8_Witness ==
    /\ sg_steps >= 3 /\ sg_out[1] # 0 /\ sg_out[2] # 0
    /\ Alpha(sg) # sg_out[1]

\* C9: in each call omega is the stored correction plus omega_zero (omega_zero
\* itself in the first call), q is taken at the phase stored before the call,
\* the phase moves to (omega * sample_time + previous phase) mod 2*pi with the
\* same omega, the controller's output for q becomes the stored correction,
\* and the returned theta is the new phase.
C9_UpdateOrdering ==
    /\ [](steps = 0 => pll.pi_value = 0 /\ pll.z1 = 0)
    /\ [][ LET omega == pll.pi_value + Cfg.omega_zero
               v_alpha == Alpha(pll.sogi)
               v_beta == Beta(pll.sogi)
               q == (-v_alpha) * sin(pll.z1) + v_beta * cos(pll.z1)
           IN  /\ pll'.sogi.integrator_2 =
                    ThirdOrderIntegrator_update(pll.sogi.integrator_2,
                                                v_alpha * omega)
               /\ result'.v_beta = v_beta
               /\ pll'.z1 = Rem(omega * Cfg.sample_time + pll.z1, TwoPi)
               /\ pll'.pi_value = Pid_next_control_output(pll.pid, -q).output
               /\ pll'.pid = Pid_next_control_output(pll.pid, -q).self
               /\ result'.theta = pll'.z1 ]_vars

\* C9 witness: a call has found a non-zero quadrature pair at a phase off
\* zero and has left a non-zero correction.
C9_Witness ==
    /\ steps >= 3 /\ result.v_beta # 0 /\ result.theta # 0
    /\ pll.pi_value # 0 /\ pll.z1 = result.theta

\* C10: the controller's error is q: each call moves the integral term by
\* Ki * q (saturated at the limit) and stores Kp * q (saturated) plus the
\* integral term (the sum saturated) as the correction; with non-negative
\* gains and a zero integral term a positive q gives a correction >= 0.
C10_ErrorIsQ ==
    [][ LET q == alpha_beta_to_q(Alpha(pll.sogi), Beta(pll.sogi), pll.z1)
            Kp == Cfg.pi_proportional_gain
            Ki == Cfg.pi_integral_gain
            integral == Saturate(Limit, pll.pid.integral_term + Ki * q)
        IN  /\ pll'.pid.integral_term = integral
            /\ pll'.pi_value =
                 Saturate(Limit, Saturate(Limit, Kp * q) + integral)
            /\ (q > 0 /\ Kp >= 0 /\ Ki >= 0 /\ pll.pid.integral_term = 0)
                 => pll'.pi_value >= 0 ]_vars

\* C10 witness: a call has left an unsaturated, positive integral term and an
\* unsaturated positive correction larger than it (a proportional part on top).
C10_Witness ==
    /\ steps >= 2 /\ Cfg.pi_integral_gain > 0
    /\ 0 < pll.pid.integral_term /\ pll.pid.integral_term < Limit
    /\ pll.pid.integral_term < pll.pi_value /\ pll.pi_value < Limit

====
